---- MODULE Spec2Model ----
\* A model of src/app.js, the PharmaConnect landing-page script: the scroll
\* progress indicator, the per-section 3D object scale transitions, the
\* section fade-in animations, the sign-up tab switch and the sign-up form
\* submission handler.
\*
\* Numbers that are IEEE doubles in the script are exact rationals <<n, d>>
\* here (d > 0, lowest terms).  Lengths are CSS pixels.
EXTENDS Integers, Sequences, FiniteSets

\* ---------------------------------------------------------------- bounds
MaxScroll     == 4   \* largest window.scrollY drawn
MaxDocHeight  == 4   \* largest document.body.scrollHeight drawn
MaxViewHeight == 3   \* largest window.innerHeight drawn
MaxBarHeight  == 3   \* largest clientHeight of .scroll-progress drawn
MaxDotHeight  == 2   \* largest clientHeight of .progress-dot drawn

ScrollOffsets == 0..MaxScroll
DocHeights    == 0..MaxDocHeight
ViewHeights   == 1..MaxViewHeight
BarHeights    == 0..MaxBarHeight
DotHeights    == 0..MaxDotHeight

\* ------------------------------------------------------------- rationals
Abs(n) == IF n < 0 THEN -n ELSE n

RECURSIVE GCD(_, _)
GCD(a, b) == IF b = 0 THEN a ELSE GCD(b, a % b)

\* n / d as a normalised fraction (d # 0).
Rat(n, d) ==
  LET g == GCD(Abs(n), Abs(d))
      s == IF d < 0 THEN -1 ELSE 1
  IN  <<(s * n) \div g, (s * d) \div g>>

RatMul(r, k) == Rat(r[1] * k, r[2])
RatAdd(r, q) == Rat(r[1] * q[2] + q[1] * r[2], r[2] * q[2])
RatLeq(r, q) == r[1] * q[2] <= q[1] * r[2]
RatZero == Rat(0, 1)
RatOne  == Rat(1, 1)

\* ------------------------------------------------------------ variables
VARIABLES
  \* the scroll progress indicator
  scrollY,            \* window.scrollY
  scrollHeight,       \* document.body.scrollHeight
  innerHeight,        \* window.innerHeight
  progressContainer,  \* .scroll-progress: [exists, clientHeight]
  progressDot,        \* .progress-dot: [exists, clientHeight, top]
  progress,           \* the local `progress` of the last updateScrollProgress call
  uncaught,           \* an uncaught TypeError left a handler or the script
  \* the section objects
  scale,              \* obj.scale of each section object, in 1/Unit steps
  tweens,             \* the gsap.to(obj.scale, ...) tweens in flight, oldest first
  lastEntered,        \* the section whose onEnter / onEnterBack ran last (0: none)
  \* the scroll-scrubbed rotation and colour
  rotation,           \* obj.rotation of each section object: [x, y], each
                      \* [turns, incs]: turns * 2 pi + incs * the frame increment
  colour,             \* obj.material.color of each object: [r, g, b] in 1/255
  sectionScrub,       \* each section's scrub triggers: progress in 1/ScrubSteps
  knotScrub,          \* the hero rotation scrub trigger: progress in 1/ScrubSteps
  frames,             \* animation frames run by animate()
  \* the section fade-ins
  fadePos,            \* each fade ScrollTrigger: "before" / "inside" / "after"
  fadeAnim,           \* each gsap.from tween: [time, paused, reversed]
  sectionStyle,       \* each .section element: [opacity, y]
  \* the sign-up tabs and forms
  btnActive,          \* the .tab-button elements whose classList has 'active'
  formActive,         \* the .signup-form elements whose classList has 'active'
  dataTarget,         \* each button's data-target: the form whose id it names
  fields,             \* each form's input value
  defaultValue,       \* each form's input default (its value attribute)
  alerts,             \* alert() dialogs shown
  navigated,          \* a form submission left the page
  lastEvent           \* the DOM event last dispatched: [type, target, defaultPrevented]

indicatorVars == <<scrollY, scrollHeight, innerHeight, progressContainer,
                   progressDot, progress, uncaught>>

sceneVars == <<scale, tweens, lastEntered>>

scrubVars == <<rotation, colour, sectionScrub, knotScrub, frames>>

fadeVars == <<fadePos, fadeAnim, sectionStyle>>

signupVars == <<btnActive, formActive, dataTarget, fields, defaultValue, alerts,
                navigated, lastEvent>>

vars == <<scrollY, scrollHeight, innerHeight, progressContainer, progressDot,
          progress, uncaught, scale, tweens, lastEntered, rotation, colour,
          sectionScrub, knotScrub, frames, fadePos, fadeAnim,
          sectionStyle, btnActive, formActive, dataTarget, fields,
          defaultValue, alerts, navigated, lastEvent>>


\* ------------------------------------------------- scroll progress indicator
\* style.top before the script writes it.
NoTop == [value |-> RatZero, unit |-> "unset"]

\* `${yPos}px`
Px(v) == [value |-> v, unit |-> "px"]

\* line 332
docHeightNoSubtract(sh, ih) == sh
docHeight(sh, ih) == sh - ih

\* line 333: no clamp is applied to the quotient.
computeProgress(scrollTop, dh) ==
  IF dh > 0 THEN Rat(scrollTop, dh) ELSE RatZero

\* line 336
yPosNoHalfDot(p, barHeight, dotHeight) == RatMul(p, barHeight - dotHeight)
yPos(p, barHeight, dotHeight) ==
  RatAdd(RatMul(p, barHeight - dotHeight), Rat(dotHeight, 2))

\* One call of updateScrollProgress() on the given window/document measures:
\* the local `progress`, the dot afterwards, and whether the call threw.
\* Reading .clientHeight of a missing element (querySelector returned null)
\* throws a TypeError at line 334 or 335, after `progress` was computed and
\* before style.top is written.
updateScrollProgress(sy, sh, ih, container, dot) ==
  LET p == computeProgress(sy, docHeight(sh, ih))
  IN  IF container.exists /\ dot.exists
        THEN [progress |-> p,
              dot |-> [dot EXCEPT !.top = Px(yPos(p, container.clientHeight,
                                                  dot.clientHeight))],
              threw |-> FALSE]
        ELSE [progress |-> p, dot |-> dot, threw |-> TRUE]

\* The page as the script finds it, and line 341: the first call.
InitIndicator ==
  \E sy \in ScrollOffsets, sh \in DocHeights, ih \in ViewHeights,
     bh \in BarHeights, dh \in DotHeights, ce \in BOOLEAN, de \in BOOLEAN :
    LET container == [exists |-> ce, clientHeight |-> IF ce THEN bh ELSE 0]
        dot == [exists |-> de, clientHeight |-> IF de THEN dh ELSE 0,
                top |-> NoTop]
        r == updateScrollProgress(sy, sh, ih, container, dot)
    IN  /\ scrollY = sy
        /\ scrollHeight = sh
        /\ innerHeight = ih
        /\ progressContainer = container
        /\ progressDot = r.dot
        /\ progress = r.progress
        /\ uncaught = r.threw

\* A page with both indicator elements, at the top, for the specifications
\* that do not scroll the indicator.
InitIndicatorFixed ==
  LET container == [exists |-> TRUE, clientHeight |-> MaxBarHeight]
      dot == [exists |-> TRUE, clientHeight |-> MaxDotHeight, top |-> NoTop]
      r == updateScrollProgress(0, MaxDocHeight, 1, container, dot)
  IN  /\ scrollY = 0
      /\ scrollHeight = MaxDocHeight
      /\ innerHeight = 1
      /\ progressContainer = container
      /\ progressDot = r.dot
      /\ progress = r.progress
      /\ uncaught = r.threw

\* line 339: the window scrolled to offset y; the scroll listener runs.
Scroll(y) ==
  LET r == updateScrollProgress(y, scrollHeight, innerHeight,
                                progressContainer, progressDot)
  IN  /\ y # scrollY
      /\ scrollY' = y
      /\ progressDot' = r.dot
      /\ progress' = r.progress
      /\ uncaught' = (uncaught \/ r.threw)
      /\ UNCHANGED <<scrollHeight, innerHeight, progressContainer>>
      /\ UNCHANGED <<sceneVars, scrubVars, fadeVars, signupVars>>

\* The resize listener of line 340, on the measures after the resize.
onResize(sh, ih, bh) ==
  LET container == [progressContainer EXCEPT
                      !.clientHeight = IF progressContainer.exists THEN bh ELSE 0]
      r == updateScrollProgress(scrollY, sh, ih, container, progressDot)
  IN  /\ progressDot' = r.dot
      /\ progress' = r.progress
      /\ uncaught' = (uncaught \/ r.threw)

\* The window was resized: the viewport height, the reflowed document height
\* and the track height change, then the resize listener runs.  (The other
\* resize listener, resizeRenderer of lines 131-140, sets the renderer size
\* and the camera aspect only, which nothing modelled here reads.)
Resize(sh, ih, bh) ==
  /\ <<sh, ih, bh>> # <<scrollHeight, innerHeight, progressContainer.clientHeight>>
  /\ scrollHeight' = sh
  /\ innerHeight' = ih
  /\ progressContainer' =
       [progressContainer EXCEPT
          !.clientHeight = IF progressContainer.exists THEN bh ELSE 0]
  /\ onResize(sh, ih, bh)
  /\ UNCHANGED scrollY
  /\ UNCHANGED <<sceneVars, scrubVars, fadeVars, signupVars>>

\* ------------------------------------------------------------ GSAP tweens
Duration       == 1   \* seconds, `duration: 1` of every tween below
TicksPerSecond == 2   \* GSAP ticker frames modelled per second
Unit           == 4   \* fixed-point steps of 1.0 (scale and opacity values)
MaxBatches     == 2   \* activations whose tweens may be in flight together

TweenTicks == Duration * TicksPerSecond

\* GSAP 3 eases at k of TweenTicks elapsed ticks, as a fraction <<n, d>>;
\* power2 is the cubic.  power2.out: 1 - (1-p)^3.
\* power2.inOut: p < 1/2 ? 4p^3 : 1 - 4(1-p)^3.
Cube(n) == n * n * n

Ease(name, k) ==
  LET T == TweenTicks
  IN  IF name = "power2.out"
        THEN <<Cube(T) - Cube(T - k), Cube(T)>>
        ELSE IF 2 * k < T
               THEN <<4 * Cube(k), Cube(T)>>
               ELSE <<Cube(T) - 4 * Cube(T - k), Cube(T)>>

\* The value a tween from `a` to `b` renders after k ticks, kept to the
\* fixed-point grid (rounded down); at k = TweenTicks it is exactly b.
Lerp(a, b, name, k) ==
  LET e == Ease(name, k) IN a + ((b - a) * e[1]) \div e[2]

\* ---------------------------------------------- section objects (lines 188-225)
NumSections == 6
Sections == 1..NumSections

\* lines 188-195
sectionObjects ==
  <<[id |-> "#hero",        obj |-> "knot"],
    [id |-> "#about",       obj |-> "aboutObj"],
    [id |-> "#investors",   obj |-> "investorsObj"],
    [id |-> "#pharmacists", obj |-> "pharmObj"],
    [id |-> "#process",     obj |-> "processObj"],
    [id |-> "#signup",      obj |-> "signupObj"]>>

Vec(v) == [x |-> v, y |-> v, z |-> v]


\* lines 47, 71, 80, 95, 102, 108 and 199-201: the knot keeps the default
\* scale (1,1,1), set again at line 200; the five others are set to (0,0,0).
InitScene ==
  /\ scale = [i \in Sections |->
                IF sectionObjects[i].id = "#hero" THEN Vec(Unit) ELSE Vec(0)]
  /\ tweens = <<>>
  /\ lastEntered = 0

\* gsap.to(target.scale, {x: v, y: v, z: v, duration: 1, ease: name}): the
\* start values are read at the tween's first render, not at creation.
ScaleTween(i, v, name) ==
  [obj |-> i, to |-> Vec(v), ease |-> name, t |-> 0, inited |-> FALSE,
   from |-> Vec(0)]

OtherObjects(i) == SelectSeq([j \in Sections |-> j], LAMBDA j : j # i)

\* lines 206-215: the tween of the section's own object, then one per other
\* object in sectionObjects order.
onEnterGrowOnly(i) == <<ScaleTween(i, Unit, "power2.out")>>

onEnterTweens(i) ==
  <<ScaleTween(i, Unit, "power2.out")>> \o
  [n \in 1..(NumSections - 1) |-> ScaleTween(OtherObjects(i)[n], 0, "power2.inOut")]

\* lines 216-223: the same body again.
onEnterBackShrinkAll(i) ==
  <<ScaleTween(i, Unit, "power2.out")>> \o
  [n \in 1..NumSections |-> ScaleTween(n, 0, "power2.inOut")]

onEnterBackTweens(i) ==
  <<ScaleTween(i, Unit, "power2.out")>> \o
  [n \in 1..(NumSections - 1) |-> ScaleTween(OtherObjects(i)[n], 0, "power2.inOut")]

RoomForBatch == Len(tweens) <= (MaxBatches - 1) * NumSections

\* ScrollTrigger callbacks of section i's trigger (start 'top center',
\* end 'bottom center'): onEnter when the scroll position passes the start
\* going down, onEnterBack when it passes the end going up.  Leaving the
\* range runs no callback of the script, so between two enter events any
\* trigger may have been left: every order of enter events can occur.
onEnter(i) ==
  /\ RoomForBatch
  /\ lastEntered' = i
  /\ tweens' = tweens \o onEnterTweens(i)
  /\ UNCHANGED scale
  /\ UNCHANGED <<indicatorVars, scrubVars, fadeVars, signupVars>>

onEnterBack(i) ==
  /\ RoomForBatch
  /\ lastEntered' = i
  /\ tweens' = tweens \o onEnterBackTweens(i)
  /\ UNCHANGED scale
  /\ UNCHANGED <<indicatorVars, scrubVars, fadeVars, signupVars>>

\* One ticker frame over the scale tweens, in creation order: a tween reads
\* its start values at its first render, writes its eased value, and is
\* dropped once its duration has elapsed.  Result: <<tweens, scale>>.
RECURSIVE RenderTweens(_, _, _, _)
RenderTweens(tw, n, kept, sc) ==
  IF n > Len(tw) THEN <<kept, sc>>
  ELSE
    LET w == tw[n]
        from == IF w.inited THEN w.from ELSE sc[w.obj]
        k == w.t + 1
        v == [x |-> Lerp(from.x, w.to.x, w.ease, k),
              y |-> Lerp(from.y, w.to.y, w.ease, k),
              z |-> Lerp(from.z, w.to.z, w.ease, k)]
        sc2 == [sc EXCEPT ![w.obj] = v]
        w2 == [w EXCEPT !.t = k, !.inited = TRUE, !.from = from]
    IN  RenderTweens(tw, n + 1,
                     IF k >= TweenTicks THEN kept ELSE Append(kept, w2), sc2)

\* ------------------------- animate (142-155) and scrub tweens (157-168, 227-267)
ScrubSteps  == 2   \* scroll positions told apart along one trigger's range
NumScrubbed == 2   \* leading sections whose scroll range the page is scrolled through
MaxFrames   == 2   \* animation frames counted

ScrubProgress == 0..ScrubSteps
ScrubbedSections == 1..NumScrubbed

\* An angle: turns * 2 pi + incs * d, with d = 0.004 for x and 0.006 for y.
Angle(t, n) == [turns |-> t, incs |-> n]

\* lines 79 and 94: investorsObj and pharmObj lie a quarter turn about x.
BaseTurnsX(i) ==
  IF sectionObjects[i].id \in {"#investors", "#pharmacists"} THEN Rat(1, 4)
  ELSE RatZero

\* lines 150-151, for one object: x += 0.004, y += 0.006.
spinNone(r) == r
spin(r) ==
  [x |-> [r.x EXCEPT !.incs = RatAdd(@, RatOne)],
   y |-> [r.y EXCEPT !.incs = RatAdd(@, RatOne)]]

\* The rotation every scrub tween starts from: the script calls animate()
\* once (line 155) before it creates them, and each records its start
\* values when it is created.
StartRotation(i) ==
  spin([x |-> Angle(BaseTurnsX(i), RatZero), y |-> Angle(RatZero, RatZero)])

\* lines 231-238, channels in 1/255
colourTargets ==
  <<<< <<255, 102, 0>>,   <<255, 0, 123>> >>,
    << <<0, 114, 255>>,   <<0, 255, 127>> >>,
    << <<226, 169, 15>>,  <<255, 215, 0>> >>,
    << <<221, 44, 0>>,    <<76, 175, 80>> >>,
    << <<0, 200, 255>>,   <<255, 0, 255>> >>,
    << <<255, 105, 180>>, <<0, 188, 212>> >> >>

Colour(c) == [r |-> Rat(c[1], 1), g |-> Rat(c[2], 1), b |-> Rat(c[3], 1)]

\* GSAP's default ease, power1.out: 1 - (1 - p)^2 at p = k / ScrubSteps.
DefaultEase(k) ==
  Rat(ScrubSteps * ScrubSteps - (ScrubSteps - k) * (ScrubSteps - k),
      ScrubSteps * ScrubSteps)

\* a + (b - a) * e for fractions a, b, e
Mix(a, b, e) ==
  RatAdd(a, Rat((b[1] * a[2] - a[1] * b[2]) * e[1], a[2] * b[2] * e[2]))

\* lines 245-254: x and y each go one turn on from their start.
SectionRotationAt(i, k) ==
  LET s == StartRotation(i)
      e == DefaultEase(k)
  IN  [x |-> Angle(RatAdd(s.x.turns, e), s.x.incs),
       y |-> Angle(RatAdd(s.y.turns, e), s.y.incs)]

\* lines 256-266
SectionColourAt(i, k) ==
  LET c0 == Colour(colourTargets[i][1])
      c1 == Colour(colourTargets[i][2])
      e == DefaultEase(k)
  IN  [r |-> Mix(c0.r, c1.r, e), g |-> Mix(c0.g, c1.g, e), b |-> Mix(c0.b, c1.b, e)]

\* lines 158-168: the knot's x and y go from their start to 2 pi, ease 'none'.
KnotRotationAt(k) ==
  LET s == StartRotation(1)
      p == Rat(k, ScrubSteps)
      to(a) == Angle(Mix(a.turns, RatOne, p), Mix(a.incs, RatZero, p))
  IN  [x |-> to(s.x), y |-> to(s.y)]

\* line 155 has run animate() once; line 243 copies the start colours.
InitScrub ==
  /\ rotation = [i \in Sections |-> StartRotation(i)]
  /\ colour = [i \in Sections |-> Colour(colourTargets[i][1])]
  /\ sectionScrub = [i \in Sections |-> 0]
  /\ knotScrub = 0
  /\ frames = 0

\* lines 143-154: one animation frame.
animate ==
  /\ frames < MaxFrames
  /\ frames' = frames + 1
  /\ rotation' = [i \in Sections |-> spin(rotation[i])]
  /\ UNCHANGED <<colour, sectionScrub, knotScrub>>
  /\ UNCHANGED <<indicatorVars, sceneVars, fadeVars, signupVars>>

\* A scroll moved the progress of section i's scrub triggers (start
\* 'top center', end 'bottom center', scrub: true) to k / ScrubSteps: the
\* rotation tween and the colour tween render at that progress.
ScrubSection(i, k) ==
  /\ k # sectionScrub[i]
  /\ sectionScrub' = [sectionScrub EXCEPT ![i] = k]
  /\ rotation' = [rotation EXCEPT ![i] = SectionRotationAt(i, k)]
  /\ colour' = [colour EXCEPT ![i] = SectionColourAt(i, k)]
  /\ UNCHANGED <<knotScrub, frames>>
  /\ UNCHANGED <<indicatorVars, sceneVars, fadeVars, signupVars>>

\* (The starfield tween of lines 171-180 is scrubbed the same way; no frame
\* increment touches starField.rotation and it is left out.)
\* A scroll moved the progress of the hero rotation trigger (start 'top top',
\* end '+=1000', scrub: true) to k / ScrubSteps.
ScrubKnot(k) ==
  /\ k # knotScrub
  /\ knotScrub' = k
  /\ rotation' = [rotation EXCEPT ![1] = KnotRotationAt(k)]
  /\ UNCHANGED <<colour, sectionScrub, frames>>
  /\ UNCHANGED <<indicatorVars, sceneVars, fadeVars, signupVars>>

\* ------------------------------------------- section fade-ins (lines 272-286)
NumPageSections == 3   \* elements matched by querySelectorAll('.section')
FadeOffset      == 100 \* `y: 100`

PageSections == 1..NumPageSections


\* line 283, in the order onEnter, onLeave, onEnterBack, onLeaveBack
toggleActionsOnce == <<"play", "none", "none", "none">>
toggleActions == <<"play", "none", "none", "reverse">>

\* What the from-tween (opacity 0 -> 1, y 100 -> 0, power2.out) renders with
\* its playhead at tick k.
FadeRender(k) ==
  [opacity |-> Lerp(0, Unit, "power2.out", k),
   y |-> Lerp(FadeOffset, 0, "power2.out", k)]

\* A from-tween renders its start values at once and waits, paused, for its
\* ScrollTrigger.
InitFade ==
  /\ fadePos = [k \in PageSections |-> "before"]
  /\ fadeAnim = [k \in PageSections |->
                   [time |-> 0, paused |-> TRUE, reversed |-> FALSE]]
  /\ sectionStyle = [k \in PageSections |-> FadeRender(0)]

\* ScrollTrigger applies one toggle action to the trigger's animation.
ApplyToggle(anim, action) ==
  IF action = "play" THEN [anim EXCEPT !.paused = FALSE, !.reversed = FALSE]
  ELSE IF action = "reverse" THEN [anim EXCEPT !.paused = FALSE, !.reversed = TRUE]
  ELSE anim

\* start 'top 80%' passed scrolling down
FadeOnEnter(k) ==
  /\ fadePos[k] = "before"
  /\ fadePos' = [fadePos EXCEPT ![k] = "inside"]
  /\ fadeAnim' = [fadeAnim EXCEPT ![k] = ApplyToggle(@, toggleActions[1])]
  /\ UNCHANGED sectionStyle
  /\ UNCHANGED <<indicatorVars, sceneVars, scrubVars, signupVars>>

\* end 'bottom 60%' passed scrolling down
FadeOnLeave(k) ==
  /\ fadePos[k] = "inside"
  /\ fadePos' = [fadePos EXCEPT ![k] = "after"]
  /\ fadeAnim' = [fadeAnim EXCEPT ![k] = ApplyToggle(@, toggleActions[2])]
  /\ UNCHANGED sectionStyle
  /\ UNCHANGED <<indicatorVars, sceneVars, scrubVars, signupVars>>

\* end passed scrolling up
FadeOnEnterBack(k) ==
  /\ fadePos[k] = "after"
  /\ fadePos' = [fadePos EXCEPT ![k] = "inside"]
  /\ fadeAnim' = [fadeAnim EXCEPT ![k] = ApplyToggle(@, toggleActions[3])]
  /\ UNCHANGED sectionStyle
  /\ UNCHANGED <<indicatorVars, sceneVars, scrubVars, signupVars>>

\* start passed scrolling up
FadeOnLeaveBack(k) ==
  /\ fadePos[k] = "inside"
  /\ fadePos' = [fadePos EXCEPT ![k] = "before"]
  /\ fadeAnim' = [fadeAnim EXCEPT ![k] = ApplyToggle(@, toggleActions[4])]
  /\ UNCHANGED sectionStyle
  /\ UNCHANGED <<indicatorVars, sceneVars, scrubVars, signupVars>>

\* One ticker frame of a fade tween: an unpaused playhead moves one tick in
\* its direction and stops at either end.
FadeStep(anim) ==
  IF anim.paused THEN anim
  ELSE IF anim.reversed
    THEN [anim EXCEPT !.time = IF @ > 0 THEN @ - 1 ELSE 0]
    ELSE [anim EXCEPT !.time = IF @ < TweenTicks THEN @ + 1 ELSE TweenTicks]

\* One frame of the GSAP ticker: every animation in flight renders.
Tick ==
  LET r == RenderTweens(tweens, 1, <<>>, scale)
  IN  /\ tweens' = r[1]
      /\ scale' = r[2]
      /\ fadeAnim' = [k \in PageSections |-> FadeStep(fadeAnim[k])]
      /\ sectionStyle' = [k \in PageSections |->
                            IF fadeAnim[k].paused THEN sectionStyle[k]
                            ELSE FadeRender(FadeStep(fadeAnim[k]).time)]
      /\ UNCHANGED <<lastEntered, fadePos>>
      /\ UNCHANGED <<indicatorVars, scrubVars, signupVars>>

\* ------------------------------------------------ sign-up tabs (lines 288-302)
NumTabs   == 2   \* .tab-button elements, and .signup-form elements
MaxAlerts == 2   \* acknowledgments counted

TabButtons == 1..NumTabs
Forms      == 1..NumTabs
Values     == {"", "a"}


NoEvent == [type |-> "none", target |-> 0, defaultPrevented |-> FALSE]

\* The markup may carry any combination of active classes; every button
\* names one of the forms; the inputs share one default value.
InitSignup ==
  /\ btnActive \in SUBSET TabButtons
  /\ formActive \in SUBSET Forms
  /\ dataTarget \in [TabButtons -> Forms]
  /\ \E v \in Values : defaultValue = [f \in Forms |-> v]
  /\ fields = defaultValue
  /\ alerts = 0
  /\ navigated = FALSE
  /\ lastEvent = NoEvent

\* Button b targets form b, the first tab is shown, inputs start empty.
InitSignupFixed ==
  /\ btnActive = {1}
  /\ formActive = {1}
  /\ dataTarget = [b \in TabButtons |-> b]
  /\ defaultValue = [f \in Forms |-> ""]
  /\ fields = defaultValue
  /\ alerts = 0
  /\ navigated = FALSE
  /\ lastEvent = NoEvent

\* lines 293-301: the click listener of button b, as <<buttons, forms>>.
clickKeepForms(b) == <<{b}, formActive \cup {dataTarget[b]}>>
click(b) ==
  LET buttons0 == btnActive \ TabButtons        \* line 295
      forms0 == formActive \ Forms              \* line 296
      buttons1 == buttons0 \cup {b}             \* line 298
      target == dataTarget[b]                   \* line 299
  IN  <<buttons1, forms0 \cup {target}>>        \* line 300

Click(b) ==
  /\ ~navigated
  /\ btnActive' = click(b)[1]
  /\ formActive' = click(b)[2]
  /\ lastEvent' = [type |-> "click", target |-> b, defaultPrevented |-> FALSE]
  /\ UNCHANGED <<dataTarget, fields, defaultValue, alerts, navigated>>
  /\ UNCHANGED <<indicatorVars, sceneVars, scrubVars, fadeVars>>

\* The user edits form f's input (no listener of the script runs).
Input(f, v) ==
  /\ ~navigated
  /\ fields[f] # v
  /\ fields' = [fields EXCEPT ![f] = v]
  /\ lastEvent' = [type |-> "input", target |-> f, defaultPrevented |-> FALSE]
  /\ UNCHANGED <<btnActive, formActive, dataTarget, defaultValue, alerts,
                 navigated>>
  /\ UNCHANGED <<indicatorVars, sceneVars, scrubVars, fadeVars>>

\* lines 306-311: the submit listener of form f, as
\* [prevented, alerts, fields].
submitNoReset(f) == [prevented |-> TRUE, alerts |-> alerts + 1, fields |-> fields]
submit(f) ==
  [prevented |-> TRUE,                                      \* e.preventDefault()
   alerts |-> alerts + 1,                                   \* alert(...)
   fields |-> [fields EXCEPT ![f] = defaultValue[f]]]       \* form.reset()

\* A submit event on form f: the listener runs, then the browser performs
\* the default action (navigation) unless it was prevented.
Submit(f) ==
  LET r == submit(f)
  IN  /\ ~navigated
      /\ alerts < MaxAlerts
      /\ alerts' = r.alerts
      /\ fields' = r.fields
      /\ navigated' = ~r.prevented
      /\ lastEvent' = [type |-> "submit", target |-> f,
                       defaultPrevented |-> r.prevented]
      /\ UNCHANGED <<btnActive, formActive, dataTarget, defaultValue>>
      /\ UNCHANGED <<indicatorVars, sceneVars, scrubVars, fadeVars>>

\* -------------------------------------------------------- specifications
Init ==
  InitIndicatorFixed /\ InitScene /\ InitScrub /\ InitFade /\ InitSignupFixed

Next ==
  \/ \E y \in ScrollOffsets : Scroll(y)
  \/ \E sh \in DocHeights, ih \in ViewHeights, bh \in BarHeights :
       Resize(sh, ih, bh)
  \/ \E i \in Sections : onEnter(i)
  \/ \E i \in Sections : onEnterBack(i)
  \/ animate
  \/ \E i \in ScrubbedSections, k \in ScrubProgress : ScrubSection(i, k)
  \/ \E k \in ScrubProgress : ScrubKnot(k)
  \/ \E k \in PageSections : FadeOnEnter(k)
  \/ \E k \in PageSections : FadeOnLeave(k)
  \/ \E k \in PageSections : FadeOnEnterBack(k)
  \/ \E k \in PageSections : FadeOnLeaveBack(k)
  \/ Tick
  \/ \E b \in TabButtons : Click(b)
  \/ \E f \in Forms, v \in Values : Input(f, v)
  \/ \E f \in Forms : Submit(f)

Spec == Init /\ [][Next]_vars

\* The five parts of the script share no state, so each is also given a
\* specification of its own, with the other parts' events left out.

\* The indicator alone, on every page geometry.
InitProgress ==
  InitIndicator /\ InitScene /\ InitScrub /\ InitFade /\ InitSignupFixed
NextProgress ==
  \/ \E y \in ScrollOffsets : Scroll(y)
  \/ \E sh \in DocHeights, ih \in ViewHeights, bh \in BarHeights :
       Resize(sh, ih, bh)
SpecProgress == InitProgress /\ [][NextProgress]_vars

\* The section objects alone.
NextScene ==
  \/ \E i \in Sections : onEnter(i)
  \/ \E i \in Sections : onEnterBack(i)
  \/ Tick
SpecScene == Init /\ [][NextScene]_vars

\* The animation loop and the scrub tweens alone.
NextScrub ==
  \/ animate
  \/ \E i \in ScrubbedSections, k \in ScrubProgress : ScrubSection(i, k)
  \/ \E k \in ScrubProgress : ScrubKnot(k)
SpecScrub == Init /\ [][NextScrub]_vars

\* The fade-ins alone.
NextFade ==
  \/ \E k \in PageSections : FadeOnEnter(k)
  \/ \E k \in PageSections : FadeOnLeave(k)
  \/ \E k \in PageSections : FadeOnEnterBack(k)
  \/ \E k \in PageSections : FadeOnLeaveBack(k)
  \/ Tick
SpecFade == Init /\ [][NextFade]_vars

\* The sign-up tabs and forms alone, from any markup.
InitTabs ==
  InitIndicatorFixed /\ InitScene /\ InitScrub /\ InitFade /\ InitSignup
NextSignup ==
  \/ \E b \in TabButtons : Click(b)
  \/ \E f \in Forms, v \in Values : Input(f, v)
  \/ \E f \in Forms : Submit(f)
SpecSignup == InitTabs /\ [][NextSignup]_vars

\* ----------------------------------------------------------------- claims
\* The final scale each object is heading for: the target of its newest
\* tween, or its present scale when no tween of it is in flight.
RECURSIVE NewestTarget(_, _)
NewestTarget(j, n) ==
  IF n = 0 THEN scale[j]
  ELSE IF tweens[n].obj = j THEN tweens[n].to ELSE NewestTarget(j, n - 1)

\* C1: in the initial state and after any sequence of section onEnter /
\* onEnterBack events, once the scale tweens have settled exactly one section
\* object is at (1,1,1) and the five others are at (0,0,0); and between any
\* two handler calls the objects' targets are one full scale and five zeros.
C1_ExactlyOneSectionActive ==
  /\ tweens = <<>> =>
       \E i \in Sections :
         /\ scale[i] = [x |-> Unit, y |-> Unit, z |-> Unit]
         /\ \A j \in Sections \ {i} : scale[j] = [x |-> 0, y |-> 0, z |-> 0]
  /\ \E i \in Sections :
       /\ NewestTarget(i, Len(tweens)) = [x |-> Unit, y |-> Unit, z |-> Unit]
       /\ \A j \in Sections \ {i} :
            NewestTarget(j, Len(tweens)) = [x |-> 0, y |-> 0, z |-> 0]

\* C1 witness: the tweens of an activation of #pharmacists have settled,
\* with the hero object shrunk away.
C1_Witness ==
  /\ tweens = <<>>
  /\ lastEntered = 4
  /\ scale[4] = [x |-> Unit, y |-> Unit, z |-> Unit]
  /\ scale[1] = [x |-> 0, y |-> 0, z |-> 0]

RatEq(a, b) == a[1] * b[2] = b[1] * a[2]

\* (S^2 - (S - k)^2) / S^2, not reduced
EaseOutAt(k) ==
  <<ScrubSteps * ScrubSteps - (ScrubSteps - k) * (ScrubSteps - k),
    ScrubSteps * ScrubSteps>>

\* channel value v is a + (b - a) * e
ChannelIs(v, a, b, e) == v[1] * e[2] = (a * e[2] + (b - a) * e[1]) * v[2]

\* C9 as stated: the rotation and colour of the objects change only when
\* the scroll position does, so that a scroll position always shows the same
\* visual state.
C9_ScrollAloneDecidesVisualState ==
  [][(sectionScrub' = sectionScrub /\ knotScrub' = knotScrub) =>
       (rotation' = rotation /\ colour' = colour)]_vars

\* C9 as amended: each object's colour is a function of its section's scroll
\* progress alone, and every scrub render sets the rotation to the tween's
\* value for the new scroll position, the same on every visit; but each
\* animation frame adds one increment (0.004 rad about x, 0.006 about y) to
\* the same fields, which stays until the next scrub render.
C9_ColourScrubbedRotationDrifts ==
  /\ [](\A i \in Sections :
          LET e == EaseOutAt(sectionScrub[i])
              c0 == colourTargets[i][1]
              c1 == colourTargets[i][2]
          IN  /\ ChannelIs(colour[i].r, c0[1], c1[1], e)
              /\ ChannelIs(colour[i].g, c0[2], c1[2], e)
              /\ ChannelIs(colour[i].b, c0[3], c1[3], e))
  /\ [][/\ \A i \in Sections :
             /\ sectionScrub'[i] # sectionScrub[i] =>
                  LET e == EaseOutAt(sectionScrub'[i])
                      q == IF i \in {3, 4} THEN <<1, 4>> ELSE <<0, 1>>
                  IN  /\ RatEq(rotation'[i].x.turns,
                               <<q[1] * e[2] + e[1] * q[2], q[2] * e[2]>>)
                      /\ RatEq(rotation'[i].y.turns, e)
                      /\ rotation'[i].x.incs = <<1, 1>>
                      /\ rotation'[i].y.incs = <<1, 1>>
             /\ frames' # frames =>
                  /\ rotation'[i].x.turns = rotation[i].x.turns
                  /\ rotation'[i].y.turns = rotation[i].y.turns
                  /\ RatEq(rotation'[i].x.incs,
                           <<rotation[i].x.incs[1] + rotation[i].x.incs[2],
                             rotation[i].x.incs[2]>>)
                  /\ RatEq(rotation'[i].y.incs,
                           <<rotation[i].y.incs[1] + rotation[i].y.incs[2],
                             rotation[i].y.incs[2]>>)
        /\ knotScrub' # knotScrub =>
             /\ RatEq(rotation'[1].x.turns, <<knotScrub', ScrubSteps>>)
             /\ RatEq(rotation'[1].x.incs, <<ScrubSteps - knotScrub', ScrubSteps>>)
             /\ rotation'[1].y = rotation'[1].x
     ]_vars

\* C9 witness: #about stands half-way through its scroll range, scrubbed
\* there after the first of two animation frames: its colour is the scrubbed
\* one and its rotation carries the drift of the frame that followed.
C9_Witness ==
  /\ sectionScrub[2] = 1
  /\ frames = 2
  /\ rotation[2].x = [turns |-> <<3, 4>>, incs |-> <<2, 1>>]
  /\ colour[2] # [r |-> <<0, 1>>, g |-> <<114, 1>>, b |-> <<255, 1>>]

\* C10: after any sequence of onEnter / onEnterBack events the section of
\* the last event is the active one: its object's target scale is full and
\* every other object's target is zero, whatever fired before; and an enter
\* event for the section that was already the last one entered changes no
\* object's target.
C10_LastEventWins ==
  /\ [](lastEntered # 0 =>
          /\ NewestTarget(lastEntered, Len(tweens)) = [x |-> Unit, y |-> Unit, z |-> Unit]
          /\ \A j \in Sections \ {lastEntered} :
               NewestTarget(j, Len(tweens)) = [x |-> 0, y |-> 0, z |-> 0])
  /\ [][(Len(tweens') > Len(tweens) /\ lastEntered' = lastEntered) =>
          \A j \in Sections :
            NewestTarget(j, Len(tweens))' = NewestTarget(j, Len(tweens))]_vars

\* C10 witness: #about was entered last while the tweens of an earlier
\* activation of another section are still in flight.
C10_Witness ==
  /\ lastEntered = 2
  /\ Len(tweens) = 2 * NumSections
  /\ tweens[1].obj # 2
  /\ tweens[1].t > 0
  /\ scale[2] # [x |-> Unit, y |-> Unit, z |-> Unit]

Clamp01(r) == IF RatLeq(r, RatZero) THEN RatZero
              ELSE IF RatLeq(RatOne, r) THEN RatOne ELSE r

\* C2: on a scrollable page (range = scrollHeight - innerHeight > 0) the
\* progress computed for the current scroll offset is
\* clamp(scrollY / range, 0, 1), never above 1.
C2_ProgressClamped ==
  scrollHeight - innerHeight > 0 =>
    /\ progress = Clamp01(Rat(scrollY, scrollHeight - innerHeight))
    /\ RatLeq(progress, RatOne)

\* C3: on a page that is not scrollable (scrollHeight - innerHeight <= 0)
\* the progress is 0 for every scroll offset and the indicator's top is
\* half the indicator's height.
C3_NonScrollableZero ==
  scrollHeight - innerHeight <= 0 =>
    /\ progress = <<0, 1>>
    /\ (progressContainer.exists /\ progressDot.exists) =>
         /\ progressDot.top.unit = "px"
         /\ 2 * progressDot.top.value[1] =
              progressDot.clientHeight * progressDot.top.value[2]

\* C3 witness: a non-scrollable page scrolled off zero, indicator present.
C3_Witness ==
  /\ scrollHeight - innerHeight < 0
  /\ scrollY > 0
  /\ progressContainer.exists /\ progressDot.exists
  /\ progressDot.clientHeight = 1
  /\ progressDot.top = [value |-> <<1, 2>>, unit |-> "px"]

\* C4: after the startup call and every scroll or resize event, the
\* indicator's top is progress * (trackHeight - indicatorHeight) +
\* indicatorHeight / 2 pixels: indicatorHeight / 2 at the top of the page and
\* trackHeight - indicatorHeight / 2 with the scroll offset at the end of the
\* scrollable range.
C4_IndicatorOffset ==
  (progressContainer.exists /\ progressDot.exists) =>
    LET bar == progressContainer.clientHeight
        dot == progressDot.clientHeight
        top == progressDot.top.value
        range == scrollHeight - innerHeight
    IN  /\ progressDot.top.unit = "px"
        /\ top[1] * 2 * progress[2] =
             (2 * progress[1] * (bar - dot) + dot * progress[2]) * top[2]
        /\ (scrollY = 0 \/ range <= 0) => 2 * top[1] = dot * top[2]
        /\ (range > 0 /\ scrollY = range) => 2 * top[1] = (2 * bar - dot) * top[2]

\* C4 witness: part-way down a scrollable page, after a resize or scroll
\* placed the dot strictly between its two end positions.
C4_Witness ==
  /\ progressContainer.exists /\ progressDot.exists
  /\ scrollHeight - innerHeight = 3
  /\ scrollY = 1
  /\ progressContainer.clientHeight = 3
  /\ progressDot.clientHeight = 1
  /\ progressDot.top = [value |-> <<7, 6>>, unit |-> "px"]

\* C5: with the track or the dot element absent, the indicator update, at
\* startup and on every scroll or resize event, raises no failure.
C5_AbsentElementsNoFailure ==
  (~progressContainer.exists \/ ~progressDot.exists) => ~uncaught

Revealed(k) == sectionStyle[k] = [opacity |-> Unit, y |-> 0]

\* C6 as stated: once a section has been revealed, nothing hides it again.
C6_RevealedForever ==
  [][\A k \in PageSections : Revealed(k) => Revealed(k)']_vars

\* C6 as amended: the trigger stays attached.  A revealed section is hidden
\* again only by its reveal being reversed after the section was left
\* upward; leaving upward always reverses the reveal, entering from above
\* always plays it, and crossing the section's end either way leaves the
\* animation alone.
C6_RevealReversedOnLeaveBack ==
  [][\A k \in PageSections :
       /\ (Revealed(k) /\ ~Revealed(k)') =>
            (fadePos[k] = "before" /\ fadeAnim[k].reversed)
       /\ (fadePos[k] = "inside" /\ fadePos'[k] = "before") =>
            (fadeAnim'[k].reversed /\ ~fadeAnim'[k].paused)
       /\ (fadePos[k] = "before" /\ fadePos'[k] = "inside") =>
            (~fadeAnim'[k].reversed /\ ~fadeAnim'[k].paused)
       /\ (fadePos[k] = "after" \/ fadePos'[k] = "after") /\ fadePos'[k] # fadePos[k]
            => fadeAnim'[k] = fadeAnim[k]
    ]_vars

\* C6 witness: a section whose reveal was played and then run back to its
\* start, hidden again above the viewport.
C6_Witness ==
  \E k \in PageSections :
    /\ fadePos[k] = "before"
    /\ fadeAnim[k].reversed
    /\ fadeAnim[k].time = 0
    /\ sectionStyle[k] = [opacity |-> 0, y |-> FadeOffset]

\* C7: after a click on a tab button, whatever classes were set before,
\* the one active form panel is the one the button's data-target names and
\* the one active button is the clicked one.
C7_ExactlyOneTabActive ==
  lastEvent.type = "click" =>
    /\ formActive = {dataTarget[lastEvent.target]}
    /\ Cardinality(formActive) = 1
    /\ btnActive = {lastEvent.target}

\* C7 witness: the second button was clicked and its panel alone is shown.
C7_Witness ==
  /\ lastEvent.type = "click"
  /\ lastEvent.target = 2
  /\ dataTarget[2] = 1
  /\ formActive = {1}
  /\ btnActive = {2}

\* C8: a submit event prevents the default submission (no navigation), shows
\* one acknowledgment and resets the submitted form's input; the other
\* forms' inputs, the tab classes and the section objects are unchanged.
C8_SubmitAcknowledgesAndResets ==
  [][lastEvent'.type = "submit" =>
       LET f == lastEvent'.target
       IN  /\ lastEvent'.defaultPrevented
           /\ ~navigated'
           /\ alerts' = alerts + 1
           /\ fields'[f] = defaultValue[f]
           /\ \A g \in Forms \ {f} : fields'[g] = fields[g]
           /\ UNCHANGED <<btnActive, formActive, dataTarget, defaultValue>>
           /\ UNCHANGED <<scale, tweens, lastEntered, fadePos, fadeAnim,
                         sectionStyle>>
    ]_vars

\* C8 witness: the first form was submitted and reset while the second
\* form keeps its edited input.
C8_Witness ==
  /\ lastEvent = [type |-> "submit", target |-> 1, defaultPrevented |-> TRUE]
  /\ alerts = 1
  /\ ~navigated
  /\ fields[1] = defaultValue[1]
  /\ fields[2] # defaultValue[2]

====
